---- MODULE Spec2Model ----
(***************************************************************************)
(* A model of package traces (ders/traces): the Series container, a       *)
(* discrete step function kept as a map of points plus a sorted and an     *)
(* unsorted list of keys, and the Combine function.                        *)
(*                                                                         *)
(* Spec is the program that constructs one Series and calls its methods;   *)
(* SpecCombine, SpecCopy, SpecRound and SpecFind are the programs of a     *)
(* Combine call, of a Series and its copy, of the round trip of a mapping  *)
(* and of one run of find.                                                 *)
(*                                                                         *)
(* A Series is a record [points, sorted, unsorted]: points is a function   *)
(* from the stored keys to their values (the Go map), sorted and unsorted  *)
(* are sequences (the Go slices).  Go indexes from 0, sequences from 1:    *)
(* indexes computed by the code are kept 0-based and q[i + 1] reads the    *)
(* element the code calls q[i].                                            *)
(***************************************************************************)
EXTENDS Integers, Sequences, FiniteSets

VARIABLES
    s,      \* the Series under test (the receiver of every method call)
    inputs, \* the Series objects a Combine call is given (objs in Combine)
    last,   \* the last call made: its name, arguments and results
    ref,    \* the reference container: the stored points as one ordered map
    copy    \* the Series s.Copy() returned, for the program that keeps both

vars == <<s, inputs, last, ref, copy>>

----------------------------------------------------------------------------
(* Bounds of the model.                                                    *)

MaxKey == 2
MaxVal == 1
MaxList == 2
MaxPoints == 2
MaxCalls == 2

Keys == 0..MaxKey
Vals == 0..MaxVal
\* Arguments of the reads: every key, and one value below and above them.
Query == (0 - 1)..(MaxKey + 1)

----------------------------------------------------------------------------
(* Helpers for Go's maps and slices.                                       *)

\* m[x] on a Go map: the zero value when x is no key.
At(m, x) == IF x \in DOMAIN m THEN m[x] ELSE 0

\* m[x] = y on a Go map.
Put(m, x, y) == [k \in DOMAIN m \cup {x} |-> IF k = x THEN y ELSE m[k]]

\* delete(m, x) on a Go map.
Delete(m, x) == [k \in DOMAIN m \ {x} |-> m[k]]

Range(q) == {q[i] : i \in 1..Len(q)}

\* The orders in which a range loop may visit the keys in S.
Perms(S) == {q \in [1..Cardinality(S) -> S] : Range(q) = S}

\* The least index of q holding v (q holds v).
IndexOf(q, v) == CHOOSE i \in 1..Len(q) : q[i] = v /\ \A j \in 1..(i - 1) : q[j] # v

\* q without its element at index i (1-based).
Without(q, i) == SubSeq(q, 1, i - 1) \o SubSeq(q, i + 1, Len(q))

MinOf(S) == CHOOSE v \in S : \A w \in S : v <= w

\* sort.Slice(q, less) with less = "<": q in ascending order, duplicates kept.
RECURSIVE SortSlice(_)
SortSlice(q) ==
    IF q = <<>> THEN <<>>
    ELSE LET m == MinOf(Range(q))
         IN  <<m>> \o SortSlice(Without(q, IndexOf(q, m)))

----------------------------------------------------------------------------
(* The Series type and its methods, as functions of the receiver's state.  *)
(* A method that changes the receiver returns the new state in field s.    *)

\* make(map[int64]int64)
EmptyMap == [k \in {} |-> 0]

NewSeries == [points |-> EmptyMap, sorted |-> <<>>, unsorted |-> <<>>]

\* NewSeriesData that copies the points and appends no key to unsorted.
NewSeriesDataNoKeys(data, order) ==
    [points |-> [k \in DOMAIN data |-> data[k]], sorted |-> <<>>, unsorted |-> <<>>]

\* order is the order in which the range loop visits the keys of data.
NewSeriesData(data, order) ==
    [points |-> [k \in DOMAIN data |-> data[k]], sorted |-> <<>>, unsorted |-> order]

\* sort that appends the unsorted keys and leaves the order as it is.
sortAppendOnly(t) ==
    IF Len(t.unsorted) = 0 THEN t
    ELSE [t EXCEPT !.sorted = t.sorted \o t.unsorted, !.unsorted = <<>>]

sort(t) ==
    IF Len(t.unsorted) = 0 THEN t
    ELSE [t EXCEPT !.sorted = SortSlice(t.sorted \o t.unsorted), !.unsorted = <<>>]

\* The loop of find: i, j are the bounds, 0-based.
RECURSIVE findLoop(_, _, _, _)
findLoop(sorted, x, i, j) ==
    IF j - i > 1
    THEN LET half == (i + j + 1) \div 2
         IN  IF x = sorted[half + 1] THEN half
             ELSE IF x > sorted[half + 1] THEN findLoop(sorted, x, half, j)
             ELSE findLoop(sorted, x, i, half)
    ELSE i

\* The loop of find that goes on while j - i > 0.
findPassClosed(sorted, x, i, j) ==
    IF j - i > 0
    THEN LET half == (i + j + 1) \div 2
         IN  IF half < 0 \/ half >= Len(sorted)
             THEN [pc |-> "panic", i |-> i, j |-> j, half |-> half, ret |-> 0]
             ELSE IF x = sorted[half + 1]
             THEN [pc |-> "done", i |-> i, j |-> j, half |-> half, ret |-> half]
             ELSE IF x > sorted[half + 1]
             THEN [pc |-> "loop", i |-> half, j |-> j, half |-> half, ret |-> 0]
             ELSE [pc |-> "loop", i |-> i, j |-> half, half |-> half, ret |-> 0]
    ELSE [pc |-> "done", i |-> i, j |-> j, half |-> 0, ret |-> i]

\* One pass of the loop of find, the test of its condition included: pc is
\* where find is after it ("loop", "done" when it has returned ret, "panic"
\* when s.sorted[half] is out of range), half the index it read.
findPass(sorted, x, i, j) ==
    IF j - i > 1
    THEN LET half == (i + j + 1) \div 2
         IN  IF half < 0 \/ half >= Len(sorted)
             THEN [pc |-> "panic", i |-> i, j |-> j, half |-> half, ret |-> 0]
             ELSE IF x = sorted[half + 1]
             THEN [pc |-> "done", i |-> i, j |-> j, half |-> half, ret |-> half]
             ELSE IF x > sorted[half + 1]
             THEN [pc |-> "loop", i |-> half, j |-> j, half |-> half, ret |-> 0]
             ELSE [pc |-> "loop", i |-> i, j |-> half, half |-> half, ret |-> 0]
    ELSE [pc |-> "done", i |-> i, j |-> j, half |-> 0, ret |-> i]

\* find that takes x = sorted[0] for a key below the first.
findBelowFirst(t, x) ==
    IF Len(t.sorted) = 0 \/ x <= t.sorted[1] THEN 0 - 1
    ELSE findLoop(t.sorted, x, 0, Len(t.sorted))

find(t, x) ==
    IF Len(t.sorted) = 0 \/ x < t.sorted[1] THEN 0 - 1
    ELSE findLoop(t.sorted, x, 0, Len(t.sorted))

Size(t) == Cardinality(DOMAIN t.points)

Has(t, x) == x \in DOMAIN t.points

\* Set that appends x to unsorted whether or not x is stored.
SetAlwaysAppend(t, x, y) ==
    [t EXCEPT !.unsorted = Append(@, x), !.points = Put(@, x, y)]

Set(t, x, y) ==
    [t EXCEPT !.unsorted = IF x \in DOMAIN t.points THEN @ ELSE Append(@, x),
              !.points = Put(@, x, y)]

\* Get that does not merge the unsorted keys before it searches.
GetNoSort(t, x) ==
    IF x \in DOMAIN t.points THEN [s |-> t, ret |-> t.points[x]]
    ELSE LET i == find(t, x)
         IN  IF i < 0 THEN [s |-> t, ret |-> 0]
             ELSE [s |-> t, ret |-> At(t.points, t.sorted[i + 1])]

\* Get that merges the unsorted keys before it looks x up.
GetSortFirst(t, x) ==
    LET t1 == sort(t)
        i == find(t1, x)
    IN  IF x \in DOMAIN t.points THEN [s |-> t1, ret |-> t.points[x]]
        ELSE IF i < 0 THEN [s |-> t1, ret |-> 0]
        ELSE [s |-> t1, ret |-> At(t1.points, t1.sorted[i + 1])]

\* Get that stores the value it found for an x that is not stored.
GetStoresFloor(t, x) ==
    IF x \in DOMAIN t.points THEN [s |-> t, ret |-> t.points[x]]
    ELSE LET t1 == sort(t)
             i == find(t1, x)
         IN  IF i < 0 THEN [s |-> t1, ret |-> 0]
             ELSE [s |-> [t1 EXCEPT !.points = Put(@, x, At(t1.points, t1.sorted[i + 1]))],
                   ret |-> At(t1.points, t1.sorted[i + 1])]

Get(t, x) ==
    IF x \in DOMAIN t.points THEN [s |-> t, ret |-> t.points[x]]
    ELSE LET t1 == sort(t)
             i == find(t1, x)
         IN  IF i < 0 THEN [s |-> t1, ret |-> 0]
             ELSE [s |-> t1, ret |-> At(t1.points, t1.sorted[i + 1])]

\* Remove that merges the unsorted keys before it looks x up.
RemoveSortFirst(t, x) ==
    LET t1 == sort(t)
        i == find(t1, x)
    IN  IF x \notin DOMAIN t.points THEN [s |-> t1, panic |-> FALSE]
        ELSE IF i < 0 THEN [s |-> t1, panic |-> TRUE]
        ELSE [s |-> [t1 EXCEPT !.sorted = Without(@, i + 1), !.points = Delete(@, x)],
              panic |-> FALSE]

\* s.sorted[:i] panics when i < 0; the receiver is then left merged.
Remove(t, x) ==
    IF x \notin DOMAIN t.points THEN [s |-> t, panic |-> FALSE]
    ELSE LET t1 == sort(t)
             i == find(t1, x)
         IN  IF i < 0 THEN [s |-> t1, panic |-> TRUE]
             ELSE [s |-> [t1 EXCEPT !.sorted = Without(@, i + 1),
                                    !.points = Delete(@, x)],
                   panic |-> FALSE]

\* The loop of Compact that never updates lastY.
RECURSIVE compactLoopStaleY(_, _, _, _, _)
compactLoopStaleY(sorted, i, points, newSorted, lastY) ==
    IF i >= Len(sorted) THEN [points |-> points, newSorted |-> newSorted]
    ELSE LET x == sorted[i + 1]
         IN  IF i > 0
             THEN IF At(points, x) = lastY
                  THEN compactLoopStaleY(sorted, i + 1, Delete(points, x), newSorted, lastY)
                  ELSE compactLoopStaleY(sorted, i + 1, points, Append(newSorted, x), lastY)
             ELSE compactLoopStaleY(sorted, i + 1, points, newSorted, lastY)

\* The loop of Compact that, having deleted a point, steps over the next one.
RECURSIVE compactLoopSkip(_, _, _, _, _)
compactLoopSkip(sorted, i, points, newSorted, lastY) ==
    IF i >= Len(sorted) THEN [points |-> points, newSorted |-> newSorted]
    ELSE LET x == sorted[i + 1]
         IN  IF i > 0
             THEN IF At(points, x) = lastY
                  THEN IF i + 1 >= Len(sorted)
                       THEN [points |-> Delete(points, x), newSorted |-> newSorted]
                       ELSE compactLoopSkip(sorted, i + 2, Delete(points, x),
                                            Append(newSorted, sorted[i + 2]),
                                            At(points, sorted[i + 2]))
                  ELSE compactLoopSkip(sorted, i + 1, points, Append(newSorted, x),
                                       At(points, x))
             ELSE compactLoopSkip(sorted, i + 1, points, newSorted, lastY)

\* The range loop of Compact from index i (0-based) on: points, newSorted and
\* lastY are the loop's variables.
RECURSIVE compactLoop(_, _, _, _, _)
compactLoop(sorted, i, points, newSorted, lastY) ==
    IF i >= Len(sorted) THEN [points |-> points, newSorted |-> newSorted]
    ELSE LET x == sorted[i + 1]
         IN  IF i > 0
             THEN IF At(points, x) = lastY
                  THEN compactLoop(sorted, i + 1, Delete(points, x), newSorted, lastY)
                  ELSE compactLoop(sorted, i + 1, points, Append(newSorted, x),
                                   At(points, x))
             ELSE compactLoop(sorted, i + 1, points, newSorted, lastY)

\* Compact that takes 0 for the value before the first point, and so deletes
\* a first point of value 0.
CompactFromZero(t) ==
    IF Size(t) < 2 THEN [s |-> t, panic |-> FALSE]
    ELSE LET t1 == sort(t)
         IN  IF Len(t1.sorted) = 0 THEN [s |-> t1, panic |-> TRUE]
             ELSE LET first == t1.sorted[1]
                      drop == At(t1.points, first) = 0
                      r == compactLoop(t1.sorted, 0,
                                       IF drop THEN Delete(t1.points, first) ELSE t1.points,
                                       IF drop THEN <<>> ELSE <<first>>,
                                       At(t1.points, first))
                  IN  [s |-> [t1 EXCEPT !.points = r.points, !.sorted = r.newSorted],
                       panic |-> FALSE]

\* Compact that returns early for fewer than three points.
CompactBelowThree(t) ==
    IF Size(t) < 3 THEN [s |-> t, panic |-> FALSE]
    ELSE LET t1 == sort(t)
         IN  IF Len(t1.sorted) = 0 THEN [s |-> t1, panic |-> TRUE]
             ELSE LET r == compactLoop(t1.sorted, 0, t1.points, <<t1.sorted[1]>>,
                                       At(t1.points, t1.sorted[1]))
                  IN  [s |-> [t1 EXCEPT !.points = r.points, !.sorted = r.newSorted],
                       panic |-> FALSE]

\* s.sorted[0] panics when sorted is empty.
Compact(t) ==
    IF Size(t) < 2 THEN [s |-> t, panic |-> FALSE]
    ELSE LET t1 == sort(t)
         IN  IF Len(t1.sorted) = 0 THEN [s |-> t1, panic |-> TRUE]
             ELSE LET r == compactLoop(t1.sorted, 0, t1.points, <<t1.sorted[1]>>,
                                       At(t1.points, t1.sorted[1]))
                  IN  [s |-> [t1 EXCEPT !.points = r.points, !.sorted = r.newSorted],
                       panic |-> FALSE]

\* Xs that returns sorted as it is, without the merge.
XsNoSort(t) == [s |-> t, xs |-> t.sorted]

Xs(t) == LET t1 == sort(t) IN [s |-> t1, xs |-> t1.sorted]

X0(t) ==
    LET t1 == sort(t)
    IN  IF Len(t1.sorted) = 0 THEN [s |-> t1, ret |-> 0]
        ELSE [s |-> t1, ret |-> t1.sorted[1]]

Floor(t, x) ==
    IF Size(t) = 0 THEN [s |-> t, ret |-> 0, ok |-> FALSE]
    ELSE LET t1 == sort(t)
             i == find(t1, x)
         IN  IF i < 0 THEN [s |-> t1, ret |-> 0, ok |-> FALSE]
             ELSE [s |-> t1, ret |-> t1.sorted[i + 1], ok |-> TRUE]

\* Ceiling without the check for x being a stored point.
CeilingNoExact(t, x) ==
    IF Size(t) = 0 THEN [s |-> t, ret |-> 0, ok |-> FALSE]
    ELSE LET t1 == sort(t)
             i == find(t1, x) + 1
         IN  IF i >= Len(t1.sorted) THEN [s |-> t1, ret |-> 0, ok |-> FALSE]
             ELSE [s |-> t1, ret |-> t1.sorted[i + 1], ok |-> TRUE]

Ceiling(t, x) ==
    IF Size(t) = 0 THEN [s |-> t, ret |-> 0, ok |-> FALSE]
    ELSE IF x \in DOMAIN t.points THEN [s |-> t, ret |-> x, ok |-> TRUE]
    ELSE LET t1 == sort(t)
             i == find(t1, x) + 1
         IN  IF i >= Len(t1.sorted) THEN [s |-> t1, ret |-> 0, ok |-> FALSE]
             ELSE [s |-> t1, ret |-> t1.sorted[i + 1], ok |-> TRUE]

\* Copy that returns a Series with the map and the sorted slice of the
\* receiver.
CopyShallow(t) ==
    LET t1 == sort(t)
    IN  [s |-> t1,
         obj |-> [points |-> t1.points, sorted |-> t1.sorted, unsorted |-> <<>>],
         shared |-> {"points", "sorted"}]

\* s is the receiver after the call, obj the Series returned, and shared the
\* fields of obj that are the receiver's own map or array: none, points
\* being a map made for obj and sorted a slice of an array made for it.
Copy(t) ==
    LET t1 == sort(t)
    IN  [s |-> t1,
         obj |-> [points |-> [k \in DOMAIN t1.points |-> t1.points[k]],
                  sorted |-> t1.sorted,
                  unsorted |-> <<>>],
         shared |-> {}]

Equals(t, t0) == t.points = t0.points

----------------------------------------------------------------------------
(* Combine and the helper functions it is used with.  A reducer is named   *)
(* by a string; vals is the sequence of its variadic arguments.  int64     *)
(* arithmetic is modelled unbounded: the values of the model stay far from *)
(* the range where it wraps.                                               *)

RECURSIVE Sum(_)
Sum(vals) == IF vals = <<>> THEN 0 ELSE Sum(SubSeq(vals, 1, Len(vals) - 1)) + vals[Len(vals)]

RECURSIVE Diff(_)
Diff(vals) ==
    IF vals = <<>> THEN 0
    ELSE IF Len(vals) = 1 THEN vals[1]
    ELSE Diff(SubSeq(vals, 1, Len(vals) - 1)) - vals[Len(vals)]

Any(vals) == IF \E i \in 1..Len(vals) : vals[i] # 0 THEN 1 ELSE 0

All(vals) == IF \E i \in 1..Len(vals) : vals[i] = 0 THEN 0 ELSE 1

Reducers == {"Sum", "Diff", "Any", "All"}

\* f(valueSet...)
Apply(f, vals) ==
    CASE f = "Sum" -> Sum(vals)
      [] f = "Diff" -> Diff(vals)
      [] f = "Any" -> Any(vals)
      [] OTHER -> All(vals)

(* Combine's list holds pointers: objs are the distinct Series objects and  *)
(* refs the list itself, each entry the index in objs of the object it      *)
(* points to, so that one object may be passed more than once.              *)

\* The loop over the list that fills valueSet from its last index down, so
\* that f is given the values in the reverse of the list's order.
RECURSIVE valueLoopReversed(_, _, _, _, _)
valueLoopReversed(objs, refs, key, i, valueSet) ==
    IF i > Len(refs) THEN [objs |-> objs, valueSet |-> valueSet]
    ELSE LET g == Get(objs[refs[i]], key)
         IN  valueLoopReversed([objs EXCEPT ![refs[i]] = g.s], refs, key, i + 1,
                               <<g.ret>> \o valueSet)

\* The loop over the list that reads t0.points[key], the stored value or 0,
\* in place of t0.Get(key).
RECURSIVE valueLoopStored(_, _, _, _, _)
valueLoopStored(objs, refs, key, i, valueSet) ==
    IF i > Len(refs) THEN [objs |-> objs, valueSet |-> valueSet]
    ELSE valueLoopStored(objs, refs, key, i + 1,
                         Append(valueSet, At(objs[refs[i]].points, key)))

\* for i, t0 := range list { valueSet[i] = t0.Get(key) }, from index i on.
RECURSIVE valueLoop(_, _, _, _, _)
valueLoop(objs, refs, key, i, valueSet) ==
    IF i > Len(refs) THEN [objs |-> objs, valueSet |-> valueSet]
    ELSE LET g == Get(objs[refs[i]], key)
         IN  valueLoop([objs EXCEPT ![refs[i]] = g.s], refs, key, i + 1,
                       Append(valueSet, g.ret))

\* for key := range s.points { ... }: keys is the order of the visit, k the
\* position in it; acc is what the loops have built so far: the points and
\* unsorted of the result, and calls, the number of times f was called.
RECURSIVE keyLoop(_, _, _, _, _, _)
keyLoop(f, objs, refs, keys, k, acc) ==
    IF k > Len(keys) THEN [objs |-> objs, acc |-> acc]
    ELSE IF keys[k] \in DOMAIN acc.points
    THEN keyLoop(f, objs, refs, keys, k + 1, acc)
    ELSE LET v == valueLoop(objs, refs, keys[k], 1, <<>>)
         IN  keyLoop(f, v.objs, refs, keys, k + 1,
                     [points |-> Put(acc.points, keys[k], Apply(f, v.valueSet)),
                      unsorted |-> Append(acc.unsorted, keys[k]),
                      calls |-> acc.calls + 1])

\* The outer loop of Combine that visits the keys of the first Series only.
RECURSIVE listLoopFirstOnly(_, _, _, _, _, _)
listLoopFirstOnly(f, objs, refs, iter, p, acc) ==
    IF p > Len(refs) \/ p > 1
    THEN [objs |-> objs, acc |-> acc]
    ELSE keyLoop(f, objs, refs, iter[p], 1, acc)

\* for _, s := range list { ... }, from position p on; iter[p] is the order in
\* which the keys of list[p] are visited.
RECURSIVE listLoop(_, _, _, _, _, _)
listLoop(f, objs, refs, iter, p, acc) ==
    IF p > Len(refs) THEN [objs |-> objs, acc |-> acc]
    ELSE LET r == keyLoop(f, objs, refs, iter[p], 1, acc)
         IN  listLoop(f, r.objs, refs, iter, p + 1, r.acc)

\* Combine that calls f on the zeroed valueSet once before its loops.
CombineCallsFirst(f, objs, refs, iter) ==
    LET r == listLoop(f, objs, refs, iter, 1,
                      [points |-> EmptyMap, unsorted |-> <<>>, calls |-> 1])
    IN  [objs |-> r.objs,
         obj |-> [points |-> r.acc.points, sorted |-> <<>>, unsorted |-> r.acc.unsorted],
         calls |-> r.acc.calls]

\* objs is the objects after the call, obj the Series returned, calls the
\* number of times f was called.
Combine(f, objs, refs, iter) ==
    LET r == listLoop(f, objs, refs, iter, 1,
                      [points |-> EmptyMap, unsorted |-> <<>>, calls |-> 0])
    IN  [objs |-> r.objs,
         obj |-> [points |-> r.acc.points, sorted |-> <<>>, unsorted |-> r.acc.unsorted],
         calls |-> r.acc.calls]

----------------------------------------------------------------------------
(* The reference container of the specification: the stored points held as *)
(* one map m, read in key order, with no sorted or pending list.           *)

MaxOf(S) == CHOOSE v \in S : \A w \in S : w <= v

KeysUpTo(m, x) == {k \in DOMAIN m : k <= x}

KeysFrom(m, x) == {k \in DOMAIN m : k >= x}

RefSet(m, x, y) == [k \in DOMAIN m \cup {x} |-> IF k = x THEN y ELSE m[k]]

RefRemove(m, x) == [k \in DOMAIN m \ {x} |-> m[k]]

\* A point is redundant when the stored point just before it has its value.
RefRedundant(m, k) ==
    /\ KeysUpTo(m, k - 1) # {}
    /\ m[MaxOf(KeysUpTo(m, k - 1))] = m[k]

RefCompact(m) == [k \in {k \in DOMAIN m : ~RefRedundant(m, k)} |-> m[k]]

RefSize(m) == Cardinality(DOMAIN m)

RefHas(m, x) == x \in DOMAIN m

RefGet(m, x) == IF KeysUpTo(m, x) = {} THEN 0 ELSE m[MaxOf(KeysUpTo(m, x))]

RefFloor(m, x) ==
    IF KeysUpTo(m, x) = {} THEN [ret |-> 0, ok |-> FALSE]
    ELSE [ret |-> MaxOf(KeysUpTo(m, x)), ok |-> TRUE]

RefCeiling(m, x) ==
    IF KeysFrom(m, x) = {} THEN [ret |-> 0, ok |-> FALSE]
    ELSE [ret |-> MinOf(KeysFrom(m, x)), ok |-> TRUE]

RefX0(m) == IF DOMAIN m = {} THEN 0 ELSE MinOf(DOMAIN m)

\* The keys of m in ascending order.
RefXs(m) ==
    [i \in 1..Cardinality(DOMAIN m) |->
        CHOOSE k \in DOMAIN m : Cardinality(KeysUpTo(m, k)) = i]

(* The reducers of the specification, on the sequence of their arguments.  *)

RECURSIVE RefTotal(_)
RefTotal(vals) == IF vals = <<>> THEN 0 ELSE Head(vals) + RefTotal(Tail(vals))

\* Sum: the total; Diff: the first value less all the others; Any: 1 if
\* some value is nonzero, else 0; All: 1 if every value is nonzero, else 0.
RefReduce(f, vals) ==
    CASE f = "Sum" -> RefTotal(vals)
      [] f = "Diff" -> IF vals = <<>> THEN 0 ELSE Head(vals) - RefTotal(Tail(vals))
      [] f = "Any" -> IF \A i \in 1..Len(vals) : vals[i] = 0 THEN 0 ELSE 1
      [] f = "All" -> IF \A i \in 1..Len(vals) : vals[i] # 0 THEN 1 ELSE 0

\* g1(x), ..., gn(x): what the containers of the list refs over objs hold at
\* x, each its floor-interpolated value, in the order of the list.
RefValues(objs, refs, x) == [i \in 1..Len(refs) |-> RefGet(objs[refs[i]].points, x)]

----------------------------------------------------------------------------
(* The program: one Series s is constructed and then called any number of  *)
(* times; last records each call.                                          *)

\* The record of a call: x, y and f its arguments, refs Combine's list; ret,
\* ok, xs and obj what it returned; panic whether it panicked; again whether
\* it is a Compact that follows a Compact at once; pre the receiver as a
\* Compact found it, objs Combine's objects as it found them, and calls the
\* number of times Combine called f; on the object called, "s" or "c" (the
\* copy).
Call(op) ==
    [op |-> op, x |-> 0, y |-> 0, f |-> "", refs |-> <<>>, ret |-> 0, ok |-> FALSE,
     xs |-> <<>>, obj |-> NewSeries, panic |-> FALSE, again |-> FALSE,
     pre |-> NewSeries, objs |-> <<>>, calls |-> 0, on |-> "s"]

\* No copy is kept: obj is the copy, shared the fields it has in common with
\* s, calls the number of calls made since Copy returned it.
NoCopy == [obj |-> NewSeries, shared |-> {}, calls |-> 0]

Then(op) == [Call(op) EXCEPT !.again = (op = "Compact" /\ last.op = "Compact")]

\* The maps with at most n points.
MapsUpTo(n) ==
    UNION {[D -> Vals] : D \in {D \in SUBSET Keys : Cardinality(D) <= n}}

\* t := NewSeries(), then t.Set(k, data[k]) for each key k of data in S, in
\* ascending order.
RECURSIVE Built(_, _)
Built(data, S) ==
    IF S = {} THEN NewSeries
    ELSE LET m == CHOOSE v \in S : \A w \in S : w <= v
         IN  Set(Built(data, S \ {m}), m, data[m])

\* The objects so built from the maps with at most MaxPoints points.
Objects == {Built(data, DOMAIN data) : data \in MapsUpTo(MaxPoints)}

\* The sequences of n such objects, of at most budget points in all.
RECURSIVE ObjectLists(_, _)
ObjectLists(n, budget) ==
    IF n = 0 THEN {<<>>}
    ELSE UNION {{<<t>> \o rest : rest \in ObjectLists(n - 1, budget - Size(t))} :
                t \in {u \in Objects : Size(u) <= budget}}

\* The objects a call of Combine is given.
Inputs == UNION {ObjectLists(n, MaxPoints) : n \in 0..MaxList}

\* The lists over n objects: each object once, in order, or, where the list
\* has room, followed by one of them again.
ListsOver(n) ==
    {[i \in 1..n |-> i]}
        \cup (IF n < MaxList THEN {[i \in 1..(n + 1) |-> IF i <= n THEN i ELSE j] : j \in 1..n}
              ELSE {})

\* The orders in which Combine's range loops may visit the keys of the
\* entries of the list from position p on, one order for each entry.
RECURSIVE IterOrders(_, _, _)
IterOrders(os, refs, p) ==
    IF p > Len(refs) THEN {<<>>}
    ELSE {<<q>> \o rest : q \in Perms(DOMAIN os[refs[p]].points),
                          rest \in IterOrders(os, refs, p + 1)}

InitNewSeries ==
    /\ s = NewSeries
    /\ inputs = <<>>
    /\ last = Call("NewSeries")
    /\ ref = EmptyMap
    /\ copy = NoCopy

InitNewSeriesData ==
    \E data \in MapsUpTo(MaxKey + 1) : \E order \in Perms(DOMAIN data) :
        /\ s = NewSeriesData(data, order)
        /\ inputs = <<>>
        /\ last = Call("NewSeriesData")
        /\ ref = data
        /\ copy = NoCopy

\* s = Combine(f, list...) on objects built for the call and dropped after
\* it; the values of s are kept within Vals.
InitCombine ==
    \E os \in Inputs : \E refs \in ListsOver(Len(os)) : \E it \in IterOrders(os, refs, 1) : \E f \in Reducers :
        LET c == Combine(f, os, refs, it)
        IN  /\ \A k \in DOMAIN c.obj.points : c.obj.points[k] \in Vals
            /\ s = c.obj
            /\ inputs = <<>>
            /\ last = [Call("Combine") EXCEPT !.f = f, !.refs = refs]
            /\ ref = c.obj.points
            /\ copy = NoCopy

Init == InitNewSeries \/ InitNewSeriesData \/ InitCombine

CallSize ==
    /\ last' = [Then("Size") EXCEPT !.ret = Size(s)]
    /\ UNCHANGED <<s, inputs, ref, copy>>

CallHas(x) ==
    /\ last' = [Then("Has") EXCEPT !.x = x, !.ok = Has(s, x)]
    /\ UNCHANGED <<s, inputs, ref, copy>>

CallSet(x, y) ==
    /\ s' = Set(s, x, y)
    /\ last' = [Then("Set") EXCEPT !.x = x, !.y = y]
    /\ ref' = RefSet(ref, x, y)
    /\ UNCHANGED <<inputs, copy>>

CallGet(x) ==
    LET r == Get(s, x)
    IN  /\ s' = r.s
        /\ last' = [Then("Get") EXCEPT !.x = x, !.ret = r.ret]
        /\ UNCHANGED <<inputs, ref, copy>>

CallRemove(x) ==
    LET r == Remove(s, x)
    IN  /\ s' = r.s
        /\ last' = [Then("Remove") EXCEPT !.x = x, !.panic = r.panic]
        /\ ref' = RefRemove(ref, x)
        /\ UNCHANGED <<inputs, copy>>

CallCompact ==
    LET r == Compact(s)
    IN  /\ s' = r.s
        /\ last' = [Then("Compact") EXCEPT !.panic = r.panic, !.pre = s]
        /\ ref' = RefCompact(ref)
        /\ UNCHANGED <<inputs, copy>>

CallXs ==
    LET r == Xs(s)
    IN  /\ s' = r.s
        /\ last' = [Then("Xs") EXCEPT !.xs = r.xs]
        /\ UNCHANGED <<inputs, ref, copy>>

CallX0 ==
    LET r == X0(s)
    IN  /\ s' = r.s
        /\ last' = [Then("X0") EXCEPT !.ret = r.ret]
        /\ UNCHANGED <<inputs, ref, copy>>

CallFloor(x) ==
    LET r == Floor(s, x)
    IN  /\ s' = r.s
        /\ last' = [Then("Floor") EXCEPT !.x = x, !.ret = r.ret, !.ok = r.ok]
        /\ UNCHANGED <<inputs, ref, copy>>

CallCeiling(x) ==
    LET r == Ceiling(s, x)
    IN  /\ s' = r.s
        /\ last' = [Then("Ceiling") EXCEPT !.x = x, !.ret = r.ret, !.ok = r.ok]
        /\ UNCHANGED <<inputs, ref, copy>>

\* c := s.Copy(), after which the program goes on with s or, when keep is
\* false, with c.
CallCopy(keep) ==
    LET r == Copy(s)
    IN  /\ s' = IF keep THEN r.s ELSE r.obj
        /\ last' = [Then("Copy") EXCEPT !.obj = r.obj, !.ok = keep]
        /\ UNCHANGED <<inputs, ref, copy>>

Next ==
    \/ CallSize
    \/ \E x \in Query : CallHas(x)
    \/ \E x \in Keys, y \in Vals : CallSet(x, y)
    \/ \E x \in Query : CallGet(x)
    \/ \E x \in Query : CallRemove(x)
    \/ CallCompact
    \/ CallXs
    \/ CallX0
    \/ \E x \in Query : CallFloor(x)
    \/ \E x \in Query : CallCeiling(x)
    \/ \E keep \in BOOLEAN : CallCopy(keep)

Spec == Init /\ [][Next]_vars

----------------------------------------------------------------------------
(* The program of Combine: objects are built, handed to one call of        *)
(* Combine, and s is the Series it returns, which is then compacted.       *)

InitInputs ==
    /\ s = NewSeries
    /\ inputs \in Inputs
    /\ last = Call("NewSeries")
    /\ ref = EmptyMap
    /\ copy = NoCopy

\* s = Combine(f, list...), the list being refs over the objects of inputs.
\* The program calls Combine once.
CallCombine(f, refs, it) ==
    LET c == Combine(f, inputs, refs, it)
    IN  /\ s' = c.obj
        /\ inputs' = c.objs
        /\ last' = [Call("Combine") EXCEPT !.f = f, !.refs = refs, !.objs = inputs,
                                            !.calls = c.calls]
        /\ UNCHANGED <<ref, copy>>

\* s.Compact() on the Series Combine returned; last keeps the arguments of
\* the Combine call.
CallCompactCombined ==
    LET r == Compact(s)
    IN  /\ s' = r.s
        /\ last' = [last EXCEPT !.op = "Compact", !.panic = r.panic, !.pre = s]
        /\ UNCHANGED <<inputs, ref, copy>>

NextCombine ==
    \/ /\ last.op = "NewSeries"
       /\ \E f \in Reducers : \E refs \in ListsOver(Len(inputs)) :
             \E it \in IterOrders(inputs, refs, 1) : CallCombine(f, refs, it)
    \/ /\ last.op = "Combine"
       /\ CallCompactCombined

SpecCombine == InitInputs /\ [][NextCombine]_vars

----------------------------------------------------------------------------
(* The program of Copy: s is constructed, c := s.Copy() is taken, and then *)
(* one of the two is given Set, Remove and Compact calls while the other   *)
(* is left alone.  A Go map, and the array under a slice, is written in    *)
(* place: where copy.shared names a field, the two objects hold one map    *)
(* or one array and a write by one is seen by the other.                   *)

\* The slice q, of an array that now begins with arr.
View(q, arr) == [j \in 1..Len(q) |-> IF j <= Len(arr) THEN arr[j] ELSE q[j]]

\* The object b after the other object's call left that one as a1 and the
\* array under its sorted beginning with arr; sh is what the two share.
Seen(b, sh, a1, arr) ==
    [points |-> IF "points" \in sh THEN a1.points ELSE b.points,
     sorted |-> IF "sorted" \in sh THEN View(b.sorted, arr) ELSE b.sorted,
     unsorted |-> b.unsorted]

\* The object called and the other one.
Acting(on) == IF on = "s" THEN s ELSE copy.obj

Resting(on) == IF on = "s" THEN copy.obj ELSE s

\* append(s.sorted, s.unsorted...) in sort: with room in the array it writes
\* in place, without it allocates a new array, which ends the sharing.
Rooms(a) == IF "sorted" \in copy.shared /\ a.unsorted # <<>> THEN BOOLEAN ELSE {TRUE}

InitCopy ==
    \E data \in MapsUpTo(MaxPoints) : \E order \in Perms(DOMAIN data) :
        /\ s = NewSeriesData(data, order)
        /\ inputs = <<>>
        /\ last = Call("NewSeriesData")
        /\ ref = data
        /\ copy = NoCopy

\* c := s.Copy()
MakeCopy ==
    LET r == Copy(s)
    IN  /\ last.op = "NewSeriesData"
        /\ s' = r.s
        /\ copy' = [obj |-> r.obj, shared |-> r.shared, calls |-> 0]
        /\ last' = Call("Copy")
        /\ UNCHANGED <<inputs, ref>>

\* The call op on the object on left it as a1, the other one as b1 and the
\* two sharing sh.
After(op, on, a1, b1, sh) ==
    /\ s' = IF on = "s" THEN a1 ELSE b1
    /\ copy' = [obj |-> IF on = "s" THEN b1 ELSE a1, shared |-> sh,
                calls |-> copy.calls + 1]
    /\ last' = [Call(op) EXCEPT !.on = on]
    /\ UNCHANGED inputs

\* The calls go to one object: the one the first call after Copy went to.
MayCall(on) ==
    /\ last.op # "NewSeriesData"
    /\ last.op = "Copy" \/ last.on = on
    /\ copy.calls < MaxCalls

PairSet(on, x, y) ==
    LET a == Acting(on)
        a1 == Set(a, x, y)
    IN  /\ MayCall(on)
        /\ After("Set", on, a1, Seen(Resting(on), copy.shared, a1, a1.sorted), copy.shared)
        /\ ref' = IF on = "s" THEN RefSet(ref, x, y) ELSE ref

PairRemove(on, x, room) ==
    LET a == Acting(on)
        r == Remove(a, x)
        sh == IF x \in DOMAIN a.points /\ ~room THEN copy.shared \ {"sorted"}
              ELSE copy.shared
        arr == IF x \in DOMAIN a.points
               THEN r.s.sorted \o <<sort(a).sorted[Len(sort(a).sorted)]>>
               ELSE r.s.sorted
    IN  /\ MayCall(on)
        /\ After("Remove", on, r.s, Seen(Resting(on), sh, r.s, arr), sh)
        /\ ref' = IF on = "s" THEN RefRemove(ref, x) ELSE ref

\* s.sorted = newSorted gives the object called an array of its own.
PairCompact(on, room) ==
    LET a == Acting(on)
        r == Compact(a)
        sh == IF Size(a) >= 2 /\ ~room THEN copy.shared \ {"sorted"} ELSE copy.shared
    IN  /\ MayCall(on)
        /\ After("Compact", on, r.s, Seen(Resting(on), sh, r.s, sort(a).sorted),
                 IF Size(a) >= 2 THEN copy.shared \ {"sorted"} ELSE copy.shared)
        /\ ref' = IF on = "s" THEN RefCompact(ref) ELSE ref

NextCopy ==
    \/ MakeCopy
    \/ \E on \in {"s", "c"} : \E x \in Keys, y \in Vals : PairSet(on, x, y)
    \/ \E on \in {"s", "c"} : \E x \in Keys : \E room \in Rooms(Acting(on)) :
          PairRemove(on, x, room)
    \/ \E on \in {"s", "c"} : \E room \in Rooms(Acting(on)) : PairCompact(on, room)

SpecCopy == InitCopy /\ [][NextCopy]_vars

----------------------------------------------------------------------------
(* The program of the round trip: a mapping M, held in ref, is given to    *)
(* NewSeriesData, or set point by point on a new Series in any order, and  *)
(* is then read back with Size, Xs and Get.                                *)

InitRound ==
    \E data \in MapsUpTo(MaxKey + 1) : \E order \in Perms(DOMAIN data) :
        /\ \/ s = NewSeriesData(data, order) /\ last = Call("NewSeriesData")
           \/ s = NewSeries /\ last = Call("NewSeries")
        /\ inputs = <<>>
        /\ ref = data
        /\ copy = NoCopy

\* Every point of the mapping is in s.
Whole == DOMAIN s.points = DOMAIN ref

\* s.Set(x, M[x]) for a key x of M not set yet.
RoundSet(x) ==
    /\ last.op \in {"NewSeries", "Set"}
    /\ x \notin DOMAIN s.points
    /\ s' = Set(s, x, ref[x])
    /\ last' = [Call("Set") EXCEPT !.x = x, !.y = ref[x]]
    /\ UNCHANGED <<inputs, ref, copy>>

NextRound ==
    \/ \E x \in DOMAIN ref : RoundSet(x)
    \/ Whole /\ CallSize
    \/ Whole /\ CallXs
    \/ Whole /\ \E x \in DOMAIN ref : CallGet(x)

SpecRound == InitRound /\ [][NextRound]_vars

----------------------------------------------------------------------------
(* The program of find: s.find(x) on a Series whose keys are all in sorted, *)
(* run one pass of its loop at a time; last holds x and find's variables.   *)

\* The keys find is tried on reach one beyond the arguments of the reads.
FindKeys == (0 - 1)..(MaxKey + 1)

FindQuery == (0 - 2)..(MaxKey + 2)

InitFind ==
    \E S \in SUBSET FindKeys : \E x \in FindQuery :
        /\ s = sort(NewSeriesData([k \in S |-> 0], RefXs([k \in S |-> 0])))
        /\ inputs = <<>>
        /\ last = [op |-> "find", x |-> x, pc |-> "entry", i |-> 0, j |-> 0,
                   half |-> 0, ret |-> 0]
        /\ ref = [k \in S |-> 0]
        /\ copy = NoCopy

\* if len(s.sorted) == 0 || x < s.sorted[0] { return -1 }; i, j := 0, len(s.sorted)
findEntry ==
    /\ last.pc = "entry"
    /\ last' = IF Len(s.sorted) = 0 \/ last.x < s.sorted[1]
               THEN [last EXCEPT !.pc = "done", !.ret = 0 - 1]
               ELSE [last EXCEPT !.pc = "loop", !.i = 0, !.j = Len(s.sorted)]
    /\ UNCHANGED <<s, inputs, ref, copy>>

findNext ==
    LET r == findPass(s.sorted, last.x, last.i, last.j)
    IN  /\ last.pc = "loop"
        /\ last' = [last EXCEPT !.pc = r.pc, !.i = r.i, !.j = r.j, !.half = r.half,
                                !.ret = r.ret]
        /\ UNCHANGED <<s, inputs, ref, copy>>

NextFind == findEntry \/ findNext

SpecFind == InitFind /\ [][NextFind]_vars

----------------------------------------------------------------------------
(* The invariants of the Series type.                                      *)

\* How many times k occurs in q.
Count(q, k) == Cardinality({i \in 1..Len(q) : q[i] = k})

\* I1: the keys of points are the elements of sorted and unsorted, each once.
I1(t) ==
    LET q == t.sorted \o t.unsorted
    IN  /\ \A k \in DOMAIN t.points : Count(q, k) = 1
        /\ \A i \in 1..Len(q) : q[i] \in DOMAIN t.points

\* I2: sorted is strictly ascending.
I2(t) == \A i \in 2..Len(t.sorted) : t.sorted[i - 1] < t.sorted[i]

\* C1: after construction (NewSeries, NewSeriesData, Copy, Combine) and any
\* sequence of public calls, each key of points appears exactly once in
\* sorted and unsorted together, and they hold nothing that is no key of
\* points.
C1_KeysOncePerList == I1(s) /\ I1(last.obj)

\* A Set has just added a key to unsorted while other keys are in sorted.
C1_Witness ==
    /\ last.op = "Set"
    /\ Len(s.sorted) > 0
    /\ Len(s.unsorted) > 0
    /\ Size(s) = Len(s.sorted) + Len(s.unsorted)

\* C2: after every public call sorted is strictly ascending, hence free of
\* duplicates.
C2_SortedAscending == I2(s) /\ I2(last.obj)

\* A Remove has merged the keys and left at least two of them in sorted.
C2_Witness ==
    /\ last.op = "Remove"
    /\ last.x \notin DOMAIN s.points
    /\ Len(s.sorted) >= 2

\* C3: Get(x) returns the value of the greatest stored key <= x, and 0 when
\* no stored key is <= x (the empty Series included).
C3_GetIsFloorValue ==
    last.op = "Get" =>
        IF \E k \in DOMAIN s.points : k <= last.x
        THEN \E k \in DOMAIN s.points :
                /\ k <= last.x
                /\ \A j \in DOMAIN s.points : j <= last.x => j <= k
                /\ last.ret = s.points[k]
        ELSE last.ret = 0

\* A Get of an x that is not stored returned the nonzero value of a stored
\* key below it, with another key stored above x.
C3_Witness ==
    /\ last.op = "Get"
    /\ last.x \notin DOMAIN s.points
    /\ last.ret # 0
    /\ \E k \in DOMAIN s.points : k < last.x
    /\ \E k \in DOMAIN s.points : k > last.x

\* C4: whatever Set, Remove and Compact calls and reads came before, every
\* result of Xs, X0, Get, Floor, Ceiling, Has and Size is the result the
\* reference container gives, which keeps the stored points in one ordered
\* map and has no pending list.
C4_ReadsMatchReference ==
    /\ last.op = "Xs" => last.xs = RefXs(ref)
    /\ last.op = "X0" => last.ret = RefX0(ref)
    /\ last.op = "Get" => last.ret = RefGet(ref, last.x)
    /\ last.op = "Floor" =>
           last.ret = RefFloor(ref, last.x).ret /\ last.ok = RefFloor(ref, last.x).ok
    /\ last.op = "Ceiling" =>
           last.ret = RefCeiling(ref, last.x).ret /\ last.ok = RefCeiling(ref, last.x).ok
    /\ last.op = "Has" => last.ok = RefHas(ref, last.x)
    /\ last.op = "Size" => last.ret = RefSize(ref)

\* Xs returned two keys or more, in the order of the reference, of a Series
\* that does not store some key below its largest one.
C4_Witness ==
    /\ last.op = "Xs"
    /\ Len(last.xs) >= 2
    /\ last.xs = RefXs(ref)
    /\ \E k \in Keys : k \notin DOMAIN ref /\ k < last.xs[Len(last.xs)]

\* C5: Floor(x) returns (x0, true), x0 the largest stored key <= x, when
\* there is one, and (0, false) when there is none; so Floor(x) = (x, true)
\* for a stored key x.
C5_FloorIsGreatestKeyBelow ==
    last.op = "Floor" =>
        /\ IF \E k \in DOMAIN s.points : k <= last.x
           THEN /\ last.ok
                /\ last.ret \in DOMAIN s.points
                /\ last.ret <= last.x
                /\ \A k \in DOMAIN s.points : k <= last.x => k <= last.ret
           ELSE ~last.ok /\ last.ret = 0
        /\ last.x \in DOMAIN s.points => last.ok /\ last.ret = last.x

\* Floor found a stored key strictly below an x that is not stored, with a
\* smaller key stored as well.
C5_Witness ==
    /\ last.op = "Floor"
    /\ last.ok
    /\ last.ret < last.x
    /\ \E k \in DOMAIN s.points : k < last.ret

\* C6: Ceiling(x) returns (x1, true), x1 the smallest stored key >= x, when
\* there is one (x below the first key and x a stored key included), and
\* (0, false) when there is none.
C6_CeilingIsLeastKeyAbove ==
    last.op = "Ceiling" =>
        IF \E k \in DOMAIN s.points : k >= last.x
        THEN /\ last.ok
             /\ last.ret \in DOMAIN s.points
             /\ last.ret >= last.x
             /\ \A k \in DOMAIN s.points : k >= last.x => k >= last.ret
        ELSE ~last.ok /\ last.ret = 0

\* Ceiling found a stored key strictly above an x that is not stored, with
\* a key stored below x as well.
C6_Witness ==
    /\ last.op = "Ceiling"
    /\ last.ok
    /\ last.ret > last.x
    /\ \E k \in DOMAIN s.points : k < last.x

\* C7: for every x, stored or not, below the first key or not, Get(x) after
\* Compact() returns what Get(x) returned before it.
C7_CompactKeepsGet ==
    last.op = "Compact" =>
        \A x \in Query : Get(s, x).ret = Get(last.pre, x).ret

\* A Compact deleted a point.
C7_Witness ==
    /\ last.op = "Compact"
    /\ Size(s) < Size(last.pre)
    /\ Size(s) >= 2

\* C8: after Compact() the stored points are the smallest stored key, kept
\* even with value 0, and every stored point whose value differs from that
\* of the stored point just before it; no two consecutive stored points have
\* the same value afterwards.
C8_CompactRemovesRedundant ==
    last.op = "Compact" =>
        LET before == last.pre.points
            kept == {k \in DOMAIN before :
                        \/ \A j \in DOMAIN before : k <= j
                        \/ \E j \in DOMAIN before :
                              /\ j < k
                              /\ \A h \in DOMAIN before : ~(j < h /\ h < k)
                              /\ before[j] # before[k]}
        IN  /\ DOMAIN s.points = kept
            /\ \A k \in kept : s.points[k] = before[k]
            /\ \A j, k \in DOMAIN s.points :
                  (j < k /\ \A h \in DOMAIN s.points : ~(j < h /\ h < k))
                      => s.points[j] # s.points[k]

\* A Compact kept a first point of value 0 and deleted a later point.
C8_Witness ==
    /\ last.op = "Compact"
    /\ Size(s) < Size(last.pre)
    /\ DOMAIN s.points # {}
    /\ s.points[MinOf(DOMAIN s.points)] = 0
    /\ last.pre.points[MinOf(DOMAIN last.pre.points)] = 0

\* C9: a second Compact() at once after a Compact() leaves the stored points,
\* keys and values, as the first call left them.
C9_CompactIdempotent ==
    (last.op = "Compact" /\ last.again) => s.points = last.pre.points

\* A Compact followed a Compact on a Series of two points or more.
C9_Witness ==
    /\ last.op = "Compact"
    /\ last.again
    /\ Size(s) >= 2

\* The keys stored by the entries of a list refs over the objects objs.
ListKeys(objs, refs) == UNION {DOMAIN objs[refs[i]].points : i \in 1..Len(refs)}

\* C10: the Series Combine(f, S1..Sn) returns has a stored key at x if and
\* only if x is a stored key of at least one Si, for every reducer f.
C10_CombineKeyUnion ==
    last.op = "Combine" => DOMAIN s.points = ListKeys(last.objs, last.refs)

\* Combine was given two Series that store different keys.
C10_Witness ==
    /\ last.op = "Combine"
    /\ Len(last.refs) = 2
    /\ DOMAIN last.objs[last.refs[1]].points # {}
    /\ DOMAIN last.objs[last.refs[2]].points # {}
    /\ DOMAIN last.objs[last.refs[1]].points \cap DOMAIN last.objs[last.refs[2]].points = {}
    /\ Size(s) = 2

\* C11: each stored value of Combine(f, S1..Sn) is f(S1.Get(x), ...,
\* Sn.Get(x)), the arguments in the order of the list and a container that
\* does not store x giving its floor-interpolated value; so Combine(Diff, A,
\* B) stores A.Get(x) - B.Get(x).
C11_CombineValues ==
    last.op = "Combine" =>
        \A k \in DOMAIN s.points :
            s.points[k] = RefReduce(last.f, RefValues(last.objs, last.refs, k))

\* Combine(Diff, A, B) stored a nonzero value at a key that A or B does not
\* store but holds a nonzero value at.
C11_Witness ==
    /\ last.op = "Combine"
    /\ last.f = "Diff"
    /\ Len(last.refs) = 2
    /\ \E k \in DOMAIN s.points :
          /\ s.points[k] # 0
          /\ \E i \in 1..2 :
                /\ k \notin DOMAIN last.objs[last.refs[i]].points
                /\ RefGet(last.objs[last.refs[i]].points, k) # 0

\* C12: for a list of one container or more and each of Sum, Diff, Any and
\* All, C = Combine(f, S1..Sn) has C.Get(x) = f(S1.Get(x), ..., Sn.Get(x))
\* at every x, between the stored keys and below them all as well, and
\* still has after C.Compact().
C12_CombinePointwise ==
    (last.op \in {"Combine", "Compact"} /\ Len(last.refs) >= 1) =>
        \A x \in Query :
            Get(s, x).ret = RefReduce(last.f, RefValues(last.objs, last.refs, x))

\* The Series Combine returned for two containers lost a point to Compact.
C12_Witness ==
    /\ last.op = "Compact"
    /\ Len(last.refs) = 2
    /\ last.objs[last.refs[1]] # last.objs[last.refs[2]]
    /\ Size(s) < Size(last.pre)

\* C13: Combine of the empty list returns an empty Series, without a stored
\* key and with I1 and I2 holding, for every reducer, and calls f not once,
\* though All() of no values is 1.
C13_CombineOfNone ==
    (last.op = "Combine" /\ last.refs = <<>>) =>
        /\ Size(s) = 0
        /\ DOMAIN s.points = {}
        /\ I1(s)
        /\ I2(s)
        /\ last.calls = 0

\* Combine(All) was called with the empty list.
C13_Witness ==
    /\ last.op = "Combine"
    /\ last.refs = <<>>
    /\ last.f = "All"
    /\ All(<<>>) = 1
    /\ s.unsorted = <<>>

\* C14: c = s.Copy() has the stored points of s, and after it no Set, Remove
\* or Compact on c changes the points, sorted or unsorted of s, and none on s
\* changes those of c; s keeps the contents the calls on s alone give it, so
\* that it still Equals its contents before the Copy when every key of c is
\* removed.
C14_CopyIndependent ==
    [][/\ last'.op = "Copy" =>
              /\ copy'.obj.points = s.points
              /\ s'.points = s.points
       /\ (last'.op \in {"Set", "Remove", "Compact"} /\ last'.on = "c") => s' = s
       /\ (last'.op \in {"Set", "Remove", "Compact"} /\ last'.on = "s") =>
              copy'.obj = copy.obj
       /\ s'.points = ref']_vars

\* Every key of a copy of two points was removed, and s has its two still.
C14_Witness ==
    /\ last.op = "Remove"
    /\ last.on = "c"
    /\ copy.calls = 2
    /\ Size(copy.obj) = 0
    /\ Size(s) = 2
    /\ Equals(s, [points |-> ref])

\* C15: Remove(x) of a stored x, in sorted or in unsorted, returns with the
\* stored mapping as it was less the key x, every other key and value
\* unchanged and Size() one less; Remove(x) of an x that is not stored leaves
\* points, sorted and unsorted unchanged.
C15_RemoveAllOrNothing ==
    [][last'.op = "Remove" =>
          IF last'.x \in DOMAIN s.points
          THEN /\ ~last'.panic
               /\ DOMAIN s'.points = DOMAIN s.points \ {last'.x}
               /\ \A k \in DOMAIN s'.points : s'.points[k] = s.points[k]
               /\ Size(s') = Size(s) - 1
               /\ \A i \in 1..Len(s'.sorted) : s'.sorted[i] # last'.x
               /\ \A i \in 1..Len(s'.unsorted) : s'.unsorted[i] # last'.x
          ELSE s' = s]_vars

\* Remove of a key that is not stored returned with keys still in unsorted,
\* next to keys in sorted.
C15_Witness ==
    /\ last.op = "Remove"
    /\ last.x \in Keys
    /\ last.x \notin DOMAIN s.points
    /\ s.unsorted # <<>>
    /\ s.sorted # <<>>

\* C16: the Series NewSeriesData(M) returns, and the Series built from
\* NewSeries() by Set(x, M[x]) for each key of M in any order, has Size() =
\* |M|, Xs() the keys of M in strictly ascending order, and Get(x) = M[x]
\* for each of them.
C16_RoundTrip ==
    Whole =>
        /\ last.op = "Size" => last.ret = Cardinality(DOMAIN ref)
        /\ last.op = "Xs" =>
               /\ Len(last.xs) = Cardinality(DOMAIN ref)
               /\ Range(last.xs) = DOMAIN ref
               /\ \A i \in 2..Len(last.xs) : last.xs[i - 1] < last.xs[i]
        /\ last.op = "Get" => last.ret = ref[last.x]
        /\ Equals(s, [points |-> ref])

\* Xs returned every key of a mapping with a point at each key there is.
C16_Witness ==
    /\ Whole
    /\ last.op = "Xs"
    /\ Len(last.xs) = MaxKey + 1
    /\ \E k \in DOMAIN ref : ref[k] # 0

\* C17 as stated: after Compact() on any Series unsorted is empty and every
\* stored key is in sorted.
C17_CompactAlwaysMerges ==
    last.op = "Compact" =>
        /\ s.unsorted = <<>>
        /\ \A k \in DOMAIN s.points : k \in Range(s.sorted)

\* C17, amended: after Compact() on a Series of two stored points or more
\* unsorted is empty and every stored key is in sorted; Compact() on a Series
\* of fewer than two points returns at once and leaves points, sorted and
\* unsorted as they were.
C17_CompactMergesTwoOrMore ==
    last.op = "Compact" =>
        IF Size(last.pre) >= 2
        THEN /\ ~last.panic
             /\ s.unsorted = <<>>
             /\ \A k \in DOMAIN s.points : k \in Range(s.sorted)
        ELSE s = last.pre

\* Compact merged the unsorted keys of a Series of two points and deleted
\* none.
C17_Witness ==
    /\ last.op = "Compact"
    /\ Size(last.pre) = 2
    /\ last.pre.unsorted # <<>>
    /\ s.unsorted = <<>>
    /\ Size(s) = 2

\* C18: Has(x), Size(), and Get(x) and Ceiling(x) of a stored key x leave
\* points, sorted and unsorted as they were, in every state, those with keys
\* in unsorted included.
C18_PlainReadsKeepLists ==
    [][(\/ last'.op \in {"Has", "Size"}
        \/ last'.op \in {"Get", "Ceiling"} /\ last'.x \in DOMAIN s.points)
           => s' = s]_vars

\* Get of a stored key returned with keys still in unsorted, next to keys in
\* sorted.
C18_Witness ==
    /\ last.op = "Get"
    /\ last.x \in DOMAIN s.points
    /\ s.unsorted # <<>>
    /\ s.sorted # <<>>

\* C19: on every strictly ascending sorted and every x, each pass of find's
\* loop reads an index half with i < half < j that is an index of sorted, and
\* ends the loop or narrows j - i, so that the loop terminates; find returns
\* the largest index i with sorted[i] <= x, and -1 when sorted is empty or
\* x < sorted[0].
C19_FindBinarySearch ==
    [][/\ (last.pc = "loop" /\ last.j - last.i > 1) =>
              /\ last'.pc # "panic"
              /\ last.i < last'.half /\ last'.half < last.j
              /\ 0 <= last'.half /\ last'.half < Len(s.sorted)
              /\ last'.pc = "loop" => last'.j - last'.i < last.j - last.i
       /\ (last.pc = "loop" /\ last.j - last.i <= 1) => last'.pc = "done"
       /\ last'.pc = "done" =>
              /\ last'.ret \in (0 - 1)..(Len(s.sorted) - 1)
              /\ \A n \in 1..Len(s.sorted) : s.sorted[n] <= last.x <=> n <= last'.ret + 1
              /\ last'.ret = 0 - 1 <=> (Len(s.sorted) = 0 \/ last.x < s.sorted[1])
              /\ last'.ret = find(s, last.x)]_vars

\* find returned the index of a key below x after two passes or more of its
\* loop, on a sorted with a larger key.
C19_Witness ==
    /\ last.op = "find"
    /\ last.pc = "done"
    /\ last.ret >= 1
    /\ last.ret < Len(s.sorted) - 1
    /\ s.sorted[last.ret + 1] < last.x
    /\ last.j - last.i = 1
    /\ last.j < Len(s.sorted)

\* C20: after Combine(f, S1..Sn), the same container passed twice or not,
\* each Si stores the keys and values it stored before and satisfies I1 and
\* I2, though its unsorted keys may by then be merged into sorted.
C20_CombineKeepsInputs ==
    last.op = "Combine" =>
        /\ Len(inputs) = Len(last.objs)
        /\ \A i \in 1..Len(inputs) :
              /\ inputs[i].points = last.objs[i].points
              /\ I1(inputs[i])
              /\ I2(inputs[i])

\* Combine merged the unsorted keys of one of its inputs.
C20_Witness ==
    /\ last.op = "Combine"
    /\ \E i \in 1..Len(inputs) :
          /\ last.objs[i].unsorted # <<>>
          /\ inputs[i].unsorted = <<>>
          /\ inputs[i].sorted # <<>>

====
